---- MODULE Spec2Model ----
(***************************************************************************)
(* Wake-on-LAN server: the request handlers of app/main.py, the record     *)
(* store of app/database.py and the BackgroundScheduler that main.py       *)
(* builds and drives (job table, driver thread, executor pool).            *)
(*                                                                         *)
(* Time is counted in whole minutes, the resolution of a 5-field cron      *)
(* expression.  A request handled during minute k arms its job for the     *)
(* first matching instant after k.                                         *)
(***************************************************************************)
EXTENDS Integers, Sequences, FiniteSets, TLC

\* ------------------------------------------------------------------ bounds
MaxTime == 3          \* the clock stops advancing at this minute
MaxDevices == 2       \* device rows ever inserted (AUTOINCREMENT ceiling)
MaxSchedules == 3     \* schedule rows ever inserted (AUTOINCREMENT ceiling)
MaxRequests == 3      \* requests accepted after startup

Threads == {"t1", "t2"}     \* request-handling threads of the worker pool

\* --------------------------------------------------------------- constants
misfire_grace_time == 1     \* seconds; scheduler job default
max_instances == 1          \* scheduler job default
coalesce == TRUE            \* scheduler job default
SecondsPerMinute == 60

default_broadcasts == <<"255.255.255.255">>

\* Optional values: <<>> is None, <<v>> is the value v.
None == <<>>
Some(v) == <<v>>
IsNone(o) == o = <<>>

\* ---------------------------------------------------------- cron triggers
\* A cron expression is the sequence of its whitespace-separated fields.
Star == [kind |-> "*", n |-> 0]
Every(k) == [kind |-> "*/", n |-> k]
Num(k) == [kind |-> "n", n |-> k]

CronEveryMinute == <<Star, Star, Star, Star, Star>>              \* "* * * * *"
CronEveryOther == <<Every(2), Star, Star, Star, Star>>           \* "*/2 * * * *"
CronBadMinute == <<Num(61), Star, Star, Star, Star>>             \* "61 * * * *"
CronSixFields == <<Star, Star, Star, Star, Star, Star>>          \* "* * * * * *"

ValidCrons == {CronEveryMinute, CronEveryOther}
CronInputs == ValidCrons \cup {CronBadMinute, CronSixFields}

\* minute, hour, day, month, day_of_week
FieldMin == <<0, 0, 1, 1, 0>>
FieldMax == <<59, 23, 31, 12, 6>>

FieldValid(f, i) ==
    CASE f.kind = "*" -> TRUE
      [] f.kind = "*/" -> f.n >= 1 /\ f.n <= FieldMax[i] - FieldMin[i]
      [] f.kind = "n" -> f.n >= FieldMin[i] /\ f.n <= FieldMax[i]
      [] OTHER -> FALSE

CronParsesFieldCount(expr) == Len(expr) = 5

\* CronTrigger.from_crontab: ValueError unless five valid fields.
CronParses(expr) ==
    /\ Len(expr) = 5
    /\ \A i \in 1..5 : FieldValid(expr[i], i)

FieldMatches(f, v, lo) ==
    CASE f.kind = "*" -> TRUE
      [] f.kind = "*/" -> (v - lo) % f.n = 0
      [] OTHER -> v = f.n

\* Minute t counted from 00:00 of day 1, month 1 (day_of_week 0).
Matches(trigger, t) ==
    /\ FieldMatches(trigger[1], t % 60, 0)
    /\ FieldMatches(trigger[2], (t \div 60) % 24, 0)
    /\ FieldMatches(trigger[3], 1 + (t \div 1440), 1)
    /\ FieldMatches(trigger[4], 1, 1)
    /\ FieldMatches(trigger[5], (t \div 1440) % 7, 0)

Horizon == MaxTime + 4

RECURSIVE FirstMatchFrom(_, _)
FirstMatchFrom(trigger, t) ==
    IF t > Horizon \/ Matches(trigger, t) THEN t
    ELSE FirstMatchFrom(trigger, t + 1)

\* trigger.get_next_fire_time: the first matching instant after `after`.
get_next_fire_time(trigger, after) == FirstMatchFrom(trigger, after + 1)

\* job._get_run_times(now): every fire instant from next_run_time up to now.
RECURSIVE get_run_times(_, _, _)
get_run_times(trigger, next_run_time, now) ==
    IF next_run_time > now THEN <<>>
    ELSE <<next_run_time>> \o
         get_run_times(trigger, get_next_fire_time(trigger, next_run_time), now)

\* ------------------------------------------------------------- job table
\* The memory job store: a list of jobs ordered by (next_run_time, id).
JobIds(js) == {js[i].id : i \in 1..Len(js)}

get_job(js, id) ==
    IF id \in JobIds(js)
    THEN Some(js[CHOOSE i \in 1..Len(js) : js[i].id = id])
    ELSE None

Before(a, b) ==
    \/ a.next_run_time < b.next_run_time
    \/ a.next_run_time = b.next_run_time /\ a.id < b.id

insert_job(js, job) ==
    LET k == Cardinality({i \in 1..Len(js) : Before(js[i], job)})
    IN  SubSeq(js, 1, k) \o <<job>> \o SubSeq(js, k + 1, Len(js))

\* remove_job on a present id: drops the entry the id index points at.
remove_job(js, id) ==
    LET k == CHOOSE i \in 1..Len(js) :
                 js[i].id = id /\ \A h \in 1..(i - 1) : js[h].id # id
    IN  SubSeq(js, 1, k - 1) \o SubSeq(js, k + 1, Len(js))

update_job_keep_old(js, job) == insert_job(js, job)

\* jobstore.update_job: the old entry leaves the list, the new one enters
\* at its sorted position.
update_job(js, job) == insert_job(remove_job(js, job.id), job)

\* scheduler.add_job(..., id=..., replace_existing=True) on a running
\* scheduler: a conflicting id is replaced.
add_job(js, job) ==
    IF job.id \in JobIds(js) THEN update_job(js, job) ELSE insert_job(js, job)

\* ----------------------------------------------------------------- state
VARIABLES
    devices,        \* table devices: id -> row
    schedules,      \* table schedules: id -> row
    seqDevice,      \* sqlite_sequence of devices
    seqSchedule,    \* sqlite_sequence of schedules
    app,            \* lifecycle of the application process
    loading,        \* rows startup_event still has to arm
    schedState,     \* scheduler.state
    jobs,           \* the job table
    runs,           \* executor pool: job id -> submitted run of _job
    now,            \* the clock, in minutes
    req,            \* request threads
    accepted,       \* requests accepted so far
    dispatched,     \* history: <<job id, fire instant>> -> invocations of _job
    due,            \* history: <<job id, fire instant>> that came due while armed
    macIn,          \* send_magic_packet: the mac argument, as its characters
    wire,           \* send_magic_packet: how the call ended and the payload
    lock,           \* Database._lock: "free" or the context holding it
    ctx,            \* contexts that take the lock or send: where each one is
    clock,          \* time(), in seconds
    requests_by_ip, \* rate limiter: client ip -> timestamps in the bucket
    admitted,       \* history: client ip -> timestamps of the admitted requests
    response        \* rate limiter: the last response

vars == <<devices, schedules, seqDevice, seqSchedule, app, loading, schedState,
          jobs, runs, now, req, accepted, dispatched, due,
          macIn, wire, lock, ctx, clock, requests_by_ip, admitted, response>>

coreVars == <<devices, schedules, seqDevice, seqSchedule, app, loading,
              schedState, jobs, runs, now, req, accepted, dispatched, due>>
macVars == <<macIn, wire>>
lockVars == <<lock, ctx>>
rateVars == <<clock, requests_by_ip, admitted, response>>
extVars == <<macVars, lockVars, rateVars>>

storeVars == <<devices, schedules, seqDevice, seqSchedule>>
schedVars == <<schedState, jobs, runs, dispatched, due>>


\* ----------------------------------------------------------------- store
MAC == "AA:BB:CC:DD:EE:FF"
Subnets == <<"10.0.0.255", "10.0.1.255">>

DeviceRow(b) == [mac |-> MAC, broadcasts |-> b]
ScheduleRow(d, c, b, e) ==
    [device_id |-> d, cron_expr |-> c, broadcasts |-> b, enabled |-> e]

\* Contents of the database file found at process start.
InitStores ==
    { [devices |-> <<>>, schedules |-> <<>>],
      [devices |-> <<DeviceRow(Subnets)>>,
       schedules |-> <<ScheduleRow(1, CronEveryMinute, None, 1)>>],
      [devices |-> <<DeviceRow(Subnets)>>,
       schedules |-> <<ScheduleRow(1, CronEveryMinute, None, 1),
                       ScheduleRow(1, CronEveryOther, Some(<<"10.0.0.255">>), 1)>>],
      [devices |-> <<DeviceRow(default_broadcasts)>>,
       schedules |-> <<ScheduleRow(1, CronEveryOther, None, 1),
                       ScheduleRow(1, CronEveryMinute, None, 0)>>] }

SeqToSorted(S) ==
    LET RECURSIVE Build(_)
        Build(T) == IF T = {} THEN <<>>
                    ELSE LET m == CHOOSE x \in T : \A y \in T : x <= y
                         IN  <<m>> \o Build(T \ {m})
    IN  Build(S)

\* Database.get_device
db_get_device(devs, device_id) ==
    IF device_id \in DOMAIN devs THEN Some(devs[device_id]) ELSE None

\* Database.list_schedules: schedules JOIN devices, ORDER BY s.id
db_list_schedules(devs, scheds) ==
    SeqToSorted({s \in DOMAIN scheds : scheds[s].device_id \in DOMAIN devs})

\* Database.list_schedule_ids_for_device
db_list_schedule_ids_for_device(scheds, device_id) ==
    SeqToSorted({s \in DOMAIN scheds : scheds[s].device_id = device_id})

Restrict(f, S) == [x \in S |-> f[x]]

\* Database.delete_device: both DELETE statements, under the lock.
db_delete_device_schedules(scheds, device_id) ==
    Restrict(scheds, {s \in DOMAIN scheds : scheds[s].device_id # device_id})

\* ---------------------------------------------------------- request data
NoPayload == [tag |-> "none", val |-> <<>>]

Idle ==
    [op |-> "idle", pc |-> "idle", status |-> 0, device_id |-> 0,
     schedule_id |-> 0, cron |-> <<>>, broadcasts |-> None, ids |-> <<>>,
     payload |-> NoPayload, targets |-> <<>>, idx |-> 0, sent |-> <<>>]

Done(r, code) == [r EXCEPT !.pc = "done", !.status = code]

\* WakeRequest.broadcast: str | list[str] | None
WakeInputs ==
    { NoPayload,
      [tag |-> "str", val |-> <<"10.0.0.255">>],
      [tag |-> "list", val |-> Subnets],
      [tag |-> "list", val |-> <<"">>] }

\* DeviceCreate.broadcasts / ScheduleCreate.broadcasts: list[str] | None
BroadcastInputs == {None, Some(Subnets)}
OverrideInputs == {None, Some(<<"10.0.0.255">>)}

Truthy(o) == ~IsNone(o) /\ o[1] # <<>>

parse_broadcasts(raw_broadcast, defaults) ==
    CASE raw_broadcast.tag = "none" -> defaults
      [] raw_broadcast.tag = "str" -> raw_broadcast.val
      [] OTHER -> SelectSeq(raw_broadcast.val, LAMBDA x : x # "")

\* schedule_job(schedule_id, device_id, broadcasts) armed under the id
\* "schedule-<schedule_id>" with its first fire instant.
Job(schedule_id, device_id, broadcasts, trigger, t) ==
    [id |-> schedule_id, device_id |-> device_id, broadcasts |-> broadcasts,
     trigger |-> trigger, next_run_time |-> get_next_fire_time(trigger, t)]

\* ------------------------------------------------------------------ Init
\* ------------------------------------------------------- magic packet (wol.py)
\* A MAC string is the sequence of its characters.
MaxMacBytes == 7

HexUpper == <<"0", "1", "2", "3", "4", "5", "6", "7", "8", "9",
              "A", "B", "C", "D", "E", "F">>
HexLower == <<"0", "1", "2", "3", "4", "5", "6", "7", "8", "9",
              "a", "b", "c", "d", "e", "f">>
HexDigit == {HexUpper[i] : i \in 1..16} \cup {HexLower[i] : i \in 1..16}
HexVal(c) == (CHOOSE i \in 1..16 : HexUpper[i] = c \/ HexLower[i] = c) - 1

\* str.replace(old, ""): every occurrence of the character is dropped.
RECURSIVE replace(_, _)
replace(s, old) ==
    IF s = <<>> THEN <<>>
    ELSE IF Head(s) = old THEN replace(Tail(s), old)
    ELSE <<Head(s)>> \o replace(Tail(s), old)

\* bytes.fromhex: two hex digits per byte, ASCII whitespace between bytes is
\* skipped, anything else raises ValueError (None).
RECURSIVE fromhex(_)
fromhex(s) ==
    IF s = <<>> THEN Some(<<>>)
    ELSE IF Head(s) = " " THEN fromhex(Tail(s))
    ELSE IF Len(s) < 2 \/ s[1] \notin HexDigit \/ s[2] \notin HexDigit THEN None
    ELSE LET rest == fromhex(Tail(Tail(s)))
         IN  IF rest = None THEN None
             ELSE Some(<<16 * HexVal(s[1]) + HexVal(s[2])>> \o rest[1])

normalize_mac_keep_colons(mac) == fromhex(replace(mac, "-"))
normalize_mac(mac) == fromhex(replace(replace(mac, ":"), "-"))

\* bytes * n
RECURSIVE Repeat(_, _)
Repeat(b, n) == IF n = 0 THEN <<>> ELSE b \o Repeat(b, n - 1)

magic_packet(mac_bytes) == Repeat(<<255>>, 6) \o Repeat(mac_bytes, 16)

\* The arguments send_magic_packet is called with: up to MaxMacBytes byte
\* pairs in each separator style, and strings that are not byte pairs at all.
MacPairs == {<<"A", "b">>, <<"0", "9">>}
Separators == {<<":">>, <<"-">>, <<>>, <<" ">>}

RECURSIVE Join(_, _)
Join(pairs, sep) ==
    IF pairs = <<>> THEN <<>>
    ELSE IF Len(pairs) = 1 THEN pairs[1]
    ELSE pairs[1] \o sep \o Join(Tail(pairs), sep)

MacOddDigits == <<"A", "b", ":", "0", "9", ":", "A", "b", ":", "0", "9", ":",
                  "A", "b", ":", "0">>
MacNonHex == <<"G", "G", ":", "0", "9", ":", "A", "b", ":", "0", "9", ":",
               "A", "b", ":", "0", "9">>
MacInputs ==
    { Join(ps, sep) :
        ps \in UNION { [1..n -> MacPairs] : n \in 0..MaxMacBytes },
        sep \in Separators }
    \cup {MacOddDigits, MacNonHex}

NotCalled == [state |-> "not_called", packet |-> <<>>, sent |-> FALSE]

\* --------------------------------------------------- the store lock (database.py)
MaxTargets == 2

JobContexts == {"job1", "job2"}
LockContexts == JobContexts \cup {"wake", "crud"}
Outside == [pc |-> "idle", left |-> 0]

\* Leaving a "with self._lock" block.
release_kept(holder) == holder
release(holder) == "free"

\* ------------------------------------------------- rate limiter (rate_limit.py)
MaxClock == 4
rate_limit_requests == 2
rate_limit_window_seconds == 2
enable_rate_limit == TRUE

ClientIps == {"10.0.0.7", "unknown"}
NoResponse == [ip |-> "", status |-> 0]

\* while bucket and bucket[0] < window_start: bucket.popleft()
RECURSIVE Prune(_, _)
Prune(bucket, window_start) ==
    IF bucket # <<>> /\ Head(bucket) < window_start
    THEN Prune(Tail(bucket), window_start)
    ELSE bucket

\* len(bucket) >= limit rejects; the request is admitted otherwise.
AdmitsAtLimit(bucket) == Len(bucket) <= rate_limit_requests
Admits(bucket) == Len(bucket) < rate_limit_requests

\* The application as constructed over the store st.
InitCore(st) ==
    /\ devices = st.devices
    /\ schedules = st.schedules
    /\ seqDevice = Len(st.devices)
    /\ seqSchedule = Len(st.schedules)
    /\ app = "created"
    /\ loading = <<>>
    /\ schedState = "stopped"
    /\ jobs = <<>>
    /\ runs = <<>>
    /\ now = 0
    /\ req = [t \in Threads |-> Idle]
    /\ accepted = 0
    /\ dispatched = <<>>
    /\ due = {}

InitMacIdle ==
    /\ macIn = <<>>
    /\ wire = NotCalled

InitLock ==
    /\ lock = "free"
    /\ ctx = [c \in LockContexts |-> Outside]

InitRate ==
    /\ clock = 0
    /\ requests_by_ip = [ip \in ClientIps |-> <<>>]
    /\ admitted = [ip \in ClientIps |-> <<>>]
    /\ response = NoResponse

Init ==
    /\ \E st \in InitStores : InitCore(st)
    /\ InitMacIdle
    /\ InitLock
    /\ InitRate


\* --------------------------------------------------- application lifecycle
\* startup_event, first statement: scheduler.start()
StartScheduler ==
    /\ app = "created"
    /\ schedState' = "running"
    /\ app' = "starting"
    /\ UNCHANGED <<storeVars, loading, jobs, runs, now, req, accepted,
                   dispatched, due>>
    /\ UNCHANGED extVars

\* startup_event: db.list_schedules()
LoadSchedules ==
    /\ app = "starting"
    /\ loading' = db_list_schedules(devices, schedules)
    /\ app' = "loading"
    /\ UNCHANGED <<storeVars, schedVars, now, req, accepted>>
    /\ UNCHANGED extVars

IsEnabledAny(item) == TRUE

\* startup_event: int(item["enabled"])
IsEnabled(item) == item.enabled # 0

\* startup_event: one iteration of the loop over the listed rows
ArmLoaded ==
    /\ app = "loading"
    /\ loading # <<>>
    /\ LET id == Head(loading)
           item == schedules[id]
       IN  IF ~IsEnabled(item)
           THEN /\ app' = app
                /\ jobs' = jobs
           ELSE IF ~CronParses(item.cron_expr)
           THEN /\ app' = "failed"
                /\ jobs' = jobs
           ELSE /\ app' = app
                /\ jobs' = add_job(jobs, Job(id, item.device_id, item.broadcasts,
                                            item.cron_expr, now))
    /\ loading' = Tail(loading)
    /\ UNCHANGED <<storeVars, schedState, runs, now, req, accepted,
                   dispatched, due>>
    /\ UNCHANGED extVars

\* startup_event returns; the server starts accepting requests
StartupDone ==
    /\ app = "loading"
    /\ loading = <<>>
    /\ app' = "serving"
    /\ UNCHANGED <<storeVars, loading, schedVars, now, req, accepted>>
    /\ UNCHANGED extVars

\* shutdown_event: scheduler.shutdown(wait=False).  The state becomes
\* stopped, the executor is shut down without waiting for submitted runs,
\* the memory job store drops its jobs and the driver thread is joined.
shutdown_event ==
    /\ app = "serving"
    /\ \A t \in Threads : req[t].op = "idle"
    /\ schedState' = "stopped"
    /\ jobs' = <<>>
    /\ app' = "shutdown"
    /\ UNCHANGED <<storeVars, loading, runs, now, req, accepted,
                   dispatched, due>>
    /\ UNCHANGED extVars

\* --------------------------------------------------------------- the clock
\* One minute passes.  Every armed job whose trigger matches the new minute
\* has a fire instant come due.
Tick ==
    /\ now < MaxTime
    /\ now' = now + 1
    /\ due' = IF schedState = "running"
              THEN due \cup {<<jobs[i].id, now + 1>> : i \in
                             {h \in 1..Len(jobs) :
                                 /\ jobs[h].next_run_time <= now + 1
                                 /\ Matches(jobs[h].trigger, now + 1)}}
              ELSE due
    /\ UNCHANGED <<storeVars, app, loading, schedState, jobs, runs, req,
                   accepted, dispatched>>
    /\ UNCHANGED extVars

\* ------------------------------------------------------- scheduler driver
Last(s) == s[Len(s)]

NewRun(job, run_times) ==
    [run_times |-> run_times, device_id |-> job.device_id,
     broadcasts |-> job.broadcasts, pc |-> "queued", mac |-> "",
     selected |-> <<>>, idx |-> 0, failed |-> 0, outcome |-> "none"]

\* The scheduler's treatment of one due job: the run times up to now are
\* coalesced into the last one, the run is submitted unless max_instances
\* runs of the job are still in the pool, and the job is stored again with
\* the fire instant that follows the last run time.
ProcessJob(st, job) ==
    LET all == get_run_times(job.trigger, job.next_run_time, now)
        run_times == IF coalesce THEN <<Last(all)>> ELSE all
        busy == IF job.id \in DOMAIN st.runs THEN 1 ELSE 0
        next == get_next_fire_time(job.trigger, Last(run_times))
    IN  [jobs |-> update_job(st.jobs, [job EXCEPT !.next_run_time = next]),
         runs |-> IF busy >= max_instances THEN st.runs
                  ELSE [id \in DOMAIN st.runs \cup {job.id} |->
                          IF id = job.id THEN NewRun(job, run_times)
                          ELSE st.runs[id]]]

RECURSIVE ProcessAll(_, _)
ProcessAll(st, pending) ==
    IF pending = <<>> THEN st
    ELSE ProcessAll(ProcessJob(st, Head(pending)), Tail(pending))

\* jobstore.get_due_jobs(now)
get_due_jobs(js) == SelectSeq(js, LAMBDA j : j.next_run_time <= now)

\* The driver thread wakes and processes the due jobs.
process_jobs ==
    /\ schedState = "running"
    /\ get_due_jobs(jobs) # <<>>
    /\ LET st == ProcessAll([jobs |-> jobs, runs |-> runs], get_due_jobs(jobs))
       IN  /\ jobs' = st.jobs
           /\ runs' = st.runs
    /\ UNCHANGED <<storeVars, app, loading, schedState, now, req, accepted,
                   dispatched, due>>
    /\ UNCHANGED extVars

\* --------------------------------------------------------- executor pool
Count(d, k) == IF k \in DOMAIN d THEN d[k] ELSE 0

Bump(d, k) == [x \in DOMAIN d \cup {k} |-> IF x = k THEN Count(d, k) + 1 ELSE d[x]]

AfterRunTime(r, outcome) ==
    [r EXCEPT !.run_times = Tail(@), !.outcome = outcome,
              !.pc = IF Len(r.run_times) = 1 THEN "done" ELSE "queued"]

\* schedule_job._job up to the loop: the device is read from the store and
\* the broadcast list is resolved.
JobStartNoCheck(r, device) ==
    LET selected == IF Truthy(r.broadcasts) THEN r.broadcasts[1]
                    ELSE IF IsNone(device) THEN <<>> ELSE device[1].broadcasts
    IN  IF IsNone(device) THEN AfterRunTime(r, "error")
        ELSE IF selected = <<>> THEN AfterRunTime(r, "sent")
        ELSE [r EXCEPT !.pc = "sending", !.mac = device[1].mac,
                       !.selected = selected, !.idx = 0, !.failed = 0]

JobStartDeviceList(r, device) ==
    IF IsNone(device) THEN AfterRunTime(r, "noop")
    ELSE IF device[1].broadcasts = <<>> THEN AfterRunTime(r, "sent")
    ELSE [r EXCEPT !.pc = "sending", !.mac = device[1].mac,
                   !.selected = device[1].broadcasts, !.idx = 0, !.failed = 0]

JobStart(r, device) ==
    IF IsNone(device) THEN AfterRunTime(r, "noop")
    ELSE LET selected == IF Truthy(r.broadcasts) THEN r.broadcasts[1]
                         ELSE device[1].broadcasts
         IN  IF selected = <<>> THEN AfterRunTime(r, "sent")
             ELSE [r EXCEPT !.pc = "sending", !.mac = device[1].mac,
                            !.selected = selected, !.idx = 0, !.failed = 0]

\* run_job: the next run time of a submitted run.  A run time older than
\* misfire_grace_time is a missed run; otherwise _job is called.
RunStart(id) ==
    /\ id \in DOMAIN runs
    /\ runs[id].pc = "queued"
    /\ LET r == runs[id]
           run_time == Head(r.run_times)
       IN  IF (now - run_time) * SecondsPerMinute > misfire_grace_time
           THEN /\ runs' = [runs EXCEPT ![id] = AfterRunTime(r, "missed")]
                /\ dispatched' = dispatched
           ELSE /\ runs' = [runs EXCEPT ![id] =
                              JobStart(r, db_get_device(devices, r.device_id))]
                /\ dispatched' = Bump(dispatched, <<id, run_time>>)
    /\ UNCHANGED <<storeVars, app, loading, schedState, jobs, now, req,
                   accepted, due>>
    /\ UNCHANGED extVars

AfterJobSendAbort(r0, ok) ==
    LET r == [r0 EXCEPT !.idx = @ + 1, !.failed = IF ok THEN @ ELSE @ + 1]
    IN  IF ~ok THEN AfterRunTime(r, "error")
        ELSE IF r.idx = Len(r.selected) THEN AfterRunTime(r, "sent")
        ELSE r

\* The try/except around send_magic_packet in the loop of _job: the target
\* is counted whether the send raised or not.
AfterJobSend(r0, ok) ==
    LET r == [r0 EXCEPT !.idx = @ + 1, !.failed = IF ok THEN @ ELSE @ + 1]
    IN  IF r.idx = Len(r.selected) THEN AfterRunTime(r, "sent") ELSE r

\* schedule_job._job: one iteration of the loop over the selected targets.
\* send_magic_packet either sends or raises; a failure is logged.
RunSend(id) ==
    /\ id \in DOMAIN runs
    /\ runs[id].pc = "sending"
    /\ \E ok \in BOOLEAN : runs' = [runs EXCEPT ![id] = AfterJobSend(runs[id], ok)]
    /\ UNCHANGED <<storeVars, app, loading, schedState, jobs, now, req,
                   accepted, dispatched, due>>
    /\ UNCHANGED extVars

\* The executor's completion callback releases the job's instance.
RunFinish(id) ==
    /\ id \in DOMAIN runs
    /\ runs[id].pc = "done"
    /\ runs' = Restrict(runs, DOMAIN runs \ {id})
    /\ UNCHANGED <<storeVars, app, loading, schedState, jobs, now, req,
                   accepted, dispatched, due>>
    /\ UNCHANGED extVars


\* ------------------------------------------------------- request handlers
CanAccept(t) ==
    /\ app = "serving"
    /\ req[t].op = "idle"
    /\ accepted < MaxRequests

Accept(t, r) ==
    /\ req' = [req EXCEPT ![t] = r]
    /\ accepted' = accepted + 1

Set(t, r) == req' = [req EXCEPT ![t] = r]

\* The response is written and the thread returns to the pool.
Respond(t) ==
    /\ req[t].pc = "done"
    /\ Set(t, Idle)
    /\ UNCHANGED <<storeVars, app, loading, schedVars, now, accepted>>
    /\ UNCHANGED extVars

\* POST /wake up to the loop: the target list is resolved.
wake(t) ==
    /\ CanAccept(t)
    /\ \E payload \in WakeInputs :
         LET targets == parse_broadcasts(payload, default_broadcasts)
             r == [Idle EXCEPT !.op = "wake", !.pc = "sending",
                               !.payload = payload, !.targets = targets]
         IN  Accept(t, IF targets = <<>> THEN Done(r, 200) ELSE r)
    /\ UNCHANGED <<storeVars, app, loading, schedVars, now>>
    /\ UNCHANGED extVars

\* One iteration of the loop of wake after a send that fails or succeeds.
WakeAfterSend(r, ok) ==
    LET n == [r EXCEPT !.idx = @ + 1,
                       !.sent = IF ok THEN Append(@, r.targets[r.idx + 1]) ELSE @]
    IN  IF ~ok THEN Done(n, 500)
        ELSE IF n.idx = Len(n.targets) THEN Done(n, 200)
        ELSE n

\* POST /wake: send_magic_packet to the next target
WakeSend(t) ==
    /\ req[t].op = "wake"
    /\ req[t].pc = "sending"
    /\ \E ok \in BOOLEAN : Set(t, WakeAfterSend(req[t], ok))
    /\ UNCHANGED <<storeVars, app, loading, schedVars, now, accepted>>
    /\ UNCHANGED extVars

\* POST /devices
add_device(t) ==
    /\ CanAccept(t)
    /\ seqDevice < MaxDevices
    /\ \E b \in BroadcastInputs :
         LET broadcasts == IF Truthy(b) THEN b[1] ELSE default_broadcasts
             device_id == seqDevice + 1
         IN  /\ devices' = [d \in DOMAIN devices \cup {device_id} |->
                              IF d = device_id THEN DeviceRow(broadcasts)
                              ELSE devices[d]]
             /\ seqDevice' = device_id
             /\ Accept(t, Done([Idle EXCEPT !.op = "add_device",
                                            !.device_id = device_id], 200))
    /\ UNCHANGED <<schedules, seqSchedule, app, loading, schedVars, now>>
    /\ UNCHANGED extVars

InFlightAdds == Cardinality({t \in Threads : req[t].op = "add_schedule"
                                             /\ req[t].pc = "db_add"})

\* POST /schedules up to the insert: db.get_device, then from_crontab
add_schedule(t) ==
    /\ CanAccept(t)
    /\ seqSchedule + InFlightAdds < MaxSchedules
    /\ \E d \in 1..MaxDevices, cron \in CronInputs, b \in OverrideInputs :
         LET r == [Idle EXCEPT !.op = "add_schedule", !.device_id = d,
                               !.cron = cron, !.broadcasts = b]
         IN  Accept(t, IF IsNone(db_get_device(devices, d)) THEN Done(r, 404)
                       ELSE IF ~CronParses(cron) THEN Done(r, 400)
                       ELSE [r EXCEPT !.pc = "db_add"])
    /\ UNCHANGED <<storeVars, app, loading, schedVars, now>>
    /\ UNCHANGED extVars

\* POST /schedules: db.add_schedule.  The INSERT takes the next rowid; the
\* connection never enables foreign_keys, so the device is not looked up.
AddScheduleInsert(t) ==
    /\ req[t].op = "add_schedule"
    /\ req[t].pc = "db_add"
    /\ LET schedule_id == seqSchedule + 1
           r == req[t]
           broadcasts == IF Truthy(r.broadcasts) THEN r.broadcasts ELSE None
       IN  /\ schedules' = [s \in DOMAIN schedules \cup {schedule_id} |->
                              IF s = schedule_id
                              THEN ScheduleRow(r.device_id, r.cron, broadcasts, 1)
                              ELSE schedules[s]]
           /\ seqSchedule' = schedule_id
           /\ Set(t, [r EXCEPT !.pc = "add_job", !.schedule_id = schedule_id])
    /\ UNCHANGED <<devices, seqDevice, app, loading, schedVars, now, accepted>>
    /\ UNCHANGED extVars

\* POST /schedules: scheduler.add_job
AddScheduleArm(t) ==
    /\ req[t].op = "add_schedule"
    /\ req[t].pc = "add_job"
    /\ LET r == req[t]
       IN  /\ jobs' = add_job(jobs, Job(r.schedule_id, r.device_id,
                                       r.broadcasts, r.cron, now))
           /\ Set(t, Done(r, 200))
    /\ UNCHANGED <<storeVars, app, loading, schedState, runs, now, accepted,
                   dispatched, due>>
    /\ UNCHANGED extVars

\* The schedule id the removal loop of a delete request is at; idx counts
\* the ids already dealt with.
Current(r) == r.ids[r.idx + 1]

Advance(r) ==
    IF r.idx + 1 = Len(r.ids) THEN Done([r EXCEPT !.idx = @ + 1], 200)
    ELSE [r EXCEPT !.idx = @ + 1, !.pc = "get_job"]

\* The removal of one job: scheduler.get_job(job_id) ...
AfterGetJob(r, js) ==
    IF ~IsNone(get_job(js, Current(r))) THEN [r EXCEPT !.pc = "remove_job"]
    ELSE Advance(r)

\* ... and scheduler.remove_job(job_id), which raises JobLookupError when
\* the job table has no such id.
AfterRemoveJob(r, js) ==
    IF Current(r) \notin JobIds(js) THEN Done(r, 500) ELSE Advance(r)

GetJobStep(t, op) ==
    /\ req[t].op = op
    /\ req[t].pc = "get_job"
    /\ Set(t, AfterGetJob(req[t], jobs))
    /\ UNCHANGED <<storeVars, app, loading, schedVars, now, accepted>>
    /\ UNCHANGED extVars

RemoveJobStep(t, op) ==
    /\ req[t].op = op
    /\ req[t].pc = "remove_job"
    /\ jobs' = IF Current(req[t]) \in JobIds(jobs)
               THEN remove_job(jobs, Current(req[t])) ELSE jobs
    /\ Set(t, AfterRemoveJob(req[t], jobs))
    /\ UNCHANGED <<storeVars, app, loading, schedState, runs, now, accepted,
                   dispatched, due>>
    /\ UNCHANGED extVars

\* DELETE /devices/{device_id}: db.list_schedule_ids_for_device
delete_device(t) ==
    /\ CanAccept(t)
    /\ \E d \in 1..MaxDevices :
         Accept(t, [Idle EXCEPT !.op = "delete_device", !.pc = "db_delete",
                                !.device_id = d,
                                !.ids = db_list_schedule_ids_for_device(schedules, d)])
    /\ UNCHANGED <<storeVars, app, loading, schedVars, now>>
    /\ UNCHANGED extVars

\* DELETE /devices/{device_id}: db.delete_device and the 404 test
DeleteDeviceDb(t) ==
    /\ req[t].op = "delete_device"
    /\ req[t].pc = "db_delete"
    /\ LET r == req[t]
           deleted == r.device_id \in DOMAIN devices
       IN  /\ schedules' = db_delete_device_schedules(schedules, r.device_id)
           /\ devices' = Restrict(devices, DOMAIN devices \ {r.device_id})
           /\ Set(t, IF ~deleted THEN Done(r, 404)
                     ELSE IF r.ids = <<>> THEN Done(r, 200)
                     ELSE [r EXCEPT !.pc = "get_job"])
    /\ UNCHANGED <<seqDevice, seqSchedule, app, loading, schedVars, now, accepted>>
    /\ UNCHANGED extVars

\* DELETE /devices/{device_id}: the loop over schedule_ids
DeleteDeviceGetJob(t) == GetJobStep(t, "delete_device")
DeleteDeviceRemoveJob(t) == RemoveJobStep(t, "delete_device")

\* DELETE /schedules/{schedule_id}: db.delete_schedule and the 404 test
delete_schedule(t) ==
    /\ CanAccept(t)
    /\ \E s \in 1..MaxSchedules :
         LET r == [Idle EXCEPT !.op = "delete_schedule", !.schedule_id = s,
                               !.ids = <<s>>]
         IN  /\ schedules' = Restrict(schedules, DOMAIN schedules \ {s})
             /\ Accept(t, IF s \in DOMAIN schedules
                          THEN [r EXCEPT !.pc = "get_job"] ELSE Done(r, 404))
    /\ UNCHANGED <<devices, seqDevice, seqSchedule, app, loading, schedVars, now>>
    /\ UNCHANGED extVars

DeleteScheduleGetJob(t) == GetJobStep(t, "delete_schedule")
DeleteScheduleRemoveJob(t) == RemoveJobStep(t, "delete_schedule")

\* --------------------------------------------------------- send_magic_packet
\* One call: normalize_mac raises ValueError before a socket exists; otherwise
\* the payload is built and sendto either delivers it or raises OSError.
send_magic_packet ==
    /\ wire.state = "not_called"
    /\ LET mac_bytes == normalize_mac(macIn)
       IN  IF mac_bytes = None
           THEN wire' = [state |-> "ValueError", packet |-> <<>>, sent |-> FALSE]
           ELSE \E delivered \in BOOLEAN :
                  wire' = [state |-> IF delivered THEN "returned" ELSE "OSError",
                           packet |-> magic_packet(mac_bytes[1]),
                           sent |-> delivered]
    /\ UNCHANGED <<coreVars, macIn, lockVars, rateVars>>

\* ------------------------------------------------- lock scope around a send
\* _job: db.get_device takes the lock ...
JobGetDevice(j) ==
    /\ ctx[j].pc = "idle"
    /\ lock = "free"
    /\ lock' = j
    /\ ctx' = [ctx EXCEPT ![j].pc = "get_device"]
    /\ UNCHANGED <<coreVars, macVars, rateVars>>

\* ... and gives it back on return; a missing device ends the job, otherwise
\* the job has its list of targets.
JobGotDevice(j) ==
    /\ ctx[j].pc = "get_device"
    /\ lock' = release(j)
    /\ \E n \in 0..MaxTargets :
         ctx' = [ctx EXCEPT ![j] = IF n = 0 THEN Outside
                                   ELSE [pc |-> "loop", left |-> n]]
    /\ UNCHANGED <<coreVars, macVars, rateVars>>

JobSendBegin(j) ==
    /\ ctx[j].pc = "loop"
    /\ ctx' = [ctx EXCEPT ![j].pc = "in_send"]
    /\ UNCHANGED <<coreVars, macVars, lock, rateVars>>

\* The send returns or raises; the job goes on with the next target.
JobSendEnd(j) ==
    /\ ctx[j].pc = "in_send"
    /\ ctx' = [ctx EXCEPT ![j] = IF ctx[j].left = 1 THEN Outside
                                 ELSE [pc |-> "loop", left |-> ctx[j].left - 1]]
    /\ UNCHANGED <<coreVars, macVars, lock, rateVars>>

\* wake: no store access; the first send of a request, or the next one.
WakeSendBegin ==
    /\ \/ /\ ctx["wake"].pc = "idle"
          /\ \E n \in 1..MaxTargets :
               ctx' = [ctx EXCEPT !["wake"] = [pc |-> "in_send", left |-> n]]
       \/ /\ ctx["wake"].pc = "loop"
          /\ ctx' = [ctx EXCEPT !["wake"].pc = "in_send"]
    /\ UNCHANGED <<coreVars, macVars, lock, rateVars>>

\* A failed send ends the request, a successful one goes on.
WakeSendEnd ==
    /\ ctx["wake"].pc = "in_send"
    /\ \E ok \in BOOLEAN :
         ctx' = [ctx EXCEPT !["wake"] =
                   IF ok /\ ctx["wake"].left > 1
                   THEN [pc |-> "loop", left |-> ctx["wake"].left - 1]
                   ELSE Outside]
    /\ UNCHANGED <<coreVars, macVars, lock, rateVars>>

\* delete_device: list_schedule_ids_for_device, then delete_device, each under
\* the lock.
CrudEnter ==
    /\ ctx["crud"].pc \in {"idle", "listed"}
    /\ lock = "free"
    /\ lock' = "crud"
    /\ ctx' = [ctx EXCEPT !["crud"].pc =
                 IF ctx["crud"].pc = "idle" THEN "list_ids" ELSE "delete"]
    /\ UNCHANGED <<coreVars, macVars, rateVars>>

CrudLeave ==
    /\ ctx["crud"].pc \in {"list_ids", "delete"}
    /\ lock' = release("crud")
    /\ ctx' = [ctx EXCEPT !["crud"].pc =
                 IF ctx["crud"].pc = "list_ids" THEN "listed" ELSE "idle"]
    /\ UNCHANGED <<coreVars, macVars, rateVars>>

\* ------------------------------------------------------------ rate limiter
\* time() moves on.
ClockTick ==
    /\ clock < MaxClock
    /\ clock' = clock + 1
    /\ UNCHANGED <<coreVars, macVars, lockVars, requests_by_ip, admitted,
                   response>>

\* One request of client ip through the middleware (no await between reading
\* the bucket and appending to it).
rate_limit_middleware(ip) ==
    /\ IF ~enable_rate_limit
       THEN /\ response' = [ip |-> ip, status |-> 200]
            /\ UNCHANGED <<requests_by_ip, admitted>>
       ELSE LET window_start == clock - rate_limit_window_seconds
                bucket == Prune(requests_by_ip[ip], window_start)
            IN  IF ~Admits(bucket)
                THEN /\ requests_by_ip' = [requests_by_ip EXCEPT ![ip] = bucket]
                     /\ response' = [ip |-> ip, status |-> 429]
                     /\ UNCHANGED admitted
                ELSE /\ requests_by_ip' =
                          [requests_by_ip EXCEPT ![ip] = Append(bucket, clock)]
                     /\ admitted' =
                          [admitted EXCEPT ![ip] = Append(admitted[ip], clock)]
                     /\ response' = [ip |-> ip, status |-> 200]
    /\ UNCHANGED <<coreVars, macVars, lockVars, clock>>

\* ------------------------------------------------------------------ Next
Next ==
    \/ StartScheduler
    \/ LoadSchedules
    \/ ArmLoaded
    \/ StartupDone
    \/ shutdown_event
    \/ Tick
    \/ process_jobs
    \/ \E id \in 1..MaxSchedules : RunStart(id)
    \/ \E id \in 1..MaxSchedules : RunSend(id)
    \/ \E id \in 1..MaxSchedules : RunFinish(id)
    \/ \E t \in Threads : Respond(t)
    \/ \E t \in Threads : wake(t)
    \/ \E t \in Threads : WakeSend(t)
    \/ \E t \in Threads : add_device(t)
    \/ \E t \in Threads : add_schedule(t)
    \/ \E t \in Threads : AddScheduleInsert(t)
    \/ \E t \in Threads : AddScheduleArm(t)
    \/ \E t \in Threads : delete_device(t)
    \/ \E t \in Threads : DeleteDeviceDb(t)
    \/ \E t \in Threads : DeleteDeviceGetJob(t)
    \/ \E t \in Threads : DeleteDeviceRemoveJob(t)
    \/ \E t \in Threads : delete_schedule(t)
    \/ \E t \in Threads : DeleteScheduleGetJob(t)
    \/ \E t \in Threads : DeleteScheduleRemoveJob(t)
    \/ send_magic_packet
    \/ \E j \in JobContexts : JobGetDevice(j)
    \/ \E j \in JobContexts : JobGotDevice(j)
    \/ \E j \in JobContexts : JobSendBegin(j)
    \/ \E j \in JobContexts : JobSendEnd(j)
    \/ WakeSendBegin
    \/ WakeSendEnd
    \/ CrudEnter
    \/ CrudLeave
    \/ ClockTick
    \/ \E ip \in ClientIps : rate_limit_middleware(ip)

Spec == Init /\ [][Next]_vars

TypeOK ==
    /\ app \in {"created", "starting", "loading", "serving", "shutdown", "failed"}
    /\ schedState \in {"stopped", "running"}
    /\ now \in 0..MaxTime
    /\ seqDevice \in 0..MaxDevices
    /\ seqSchedule \in 0..MaxSchedules
    /\ DOMAIN devices \subseteq 1..seqDevice
    /\ DOMAIN schedules \subseteq 1..seqSchedule
    /\ DOMAIN runs \subseteq 1..seqSchedule
    /\ accepted \in 0..MaxRequests


(***************************************************************************)
(* The full system is too large to enumerate at once.  Each specification  *)
(* below runs actions of Spec over a part of the system.                   *)
(***************************************************************************)
Startup == StartScheduler \/ LoadSchedules \/ ArmLoaded \/ StartupDone

\* The on-demand wake path.
NextWake ==
    \/ Startup
    \/ \E t \in Threads : Respond(t)
    \/ \E t \in Threads : wake(t)
    \/ \E t \in Threads : WakeSend(t)

SpecWake == Init /\ [][NextWake]_vars

\* Concurrent device and schedule requests within one minute.
NextCrud ==
    \/ Startup
    \/ \E t \in Threads : Respond(t)
    \/ \E t \in Threads : add_device(t)
    \/ \E t \in Threads : add_schedule(t)
    \/ \E t \in Threads : AddScheduleInsert(t)
    \/ \E t \in Threads : AddScheduleArm(t)
    \/ \E t \in Threads : delete_device(t)
    \/ \E t \in Threads : DeleteDeviceDb(t)
    \/ \E t \in Threads : DeleteDeviceGetJob(t)
    \/ \E t \in Threads : DeleteDeviceRemoveJob(t)
    \/ \E t \in Threads : delete_schedule(t)
    \/ \E t \in Threads : DeleteScheduleGetJob(t)
    \/ \E t \in Threads : DeleteScheduleRemoveJob(t)

SpecCrud == Init /\ [][NextCrud]_vars

\* The scheduler over time, next to one request of one thread.
Worker == {"t1"}

NextSched ==
    \/ Startup
    \/ shutdown_event
    \/ Tick
    \/ process_jobs
    \/ \E id \in 1..MaxSchedules : RunStart(id)
    \/ \E id \in 1..MaxSchedules : RunSend(id)
    \/ \E id \in 1..MaxSchedules : RunFinish(id)
    \/ \E t \in Worker : add_schedule(t)
    \/ \E t \in Worker : AddScheduleInsert(t)
    \/ \E t \in Worker : AddScheduleArm(t)
    \/ \E t \in Worker : delete_device(t)
    \/ \E t \in Worker : DeleteDeviceDb(t)
    \/ \E t \in Worker : DeleteDeviceGetJob(t)
    \/ \E t \in Worker : DeleteDeviceRemoveJob(t)

SpecSched == Init /\ [][NextSched]_vars

\* send_magic_packet alone, over the arguments it can be called with.
EmptyStore == [devices |-> <<>>, schedules |-> <<>>]

InitMac ==
    /\ InitCore(EmptyStore)
    /\ macIn \in MacInputs
    /\ wire = NotCalled
    /\ InitLock
    /\ InitRate

NextMac == send_magic_packet

SpecMac == InitMac /\ [][NextMac]_vars

\* The store lock and the sends of the scheduled jobs and of a wake.
InitQuiet ==
    /\ InitCore(EmptyStore)
    /\ InitMacIdle
    /\ InitLock
    /\ InitRate

NextLock ==
    \/ \E j \in JobContexts : JobGetDevice(j)
    \/ \E j \in JobContexts : JobGotDevice(j)
    \/ \E j \in JobContexts : JobSendBegin(j)
    \/ \E j \in JobContexts : JobSendEnd(j)
    \/ WakeSendBegin
    \/ WakeSendEnd
    \/ CrudEnter
    \/ CrudLeave

SpecLock == InitQuiet /\ [][NextLock]_vars

\* The rate limiter under a clock that never goes back.
NextRate ==
    \/ ClockTick
    \/ \E ip \in ClientIps : rate_limit_middleware(ip)

SpecRate == InitQuiet /\ [][NextRate]_vars

\* ------------------------------------------------------------------ C1
\* C1: an on-demand wake attempts every target of its list and reports
\* failure only when no target could be sent to.
C1_WakeAttemptsAllTargets ==
    \A t \in Threads :
        (req[t].op = "wake" /\ req[t].pc = "done") =>
            /\ req[t].idx = Len(req[t].targets)
            /\ (req[t].status = 500 => req[t].sent = <<>>)

\* ------------------------------------------------------------------ C2
\* A delete_schedule in flight is about to remove the job of this id.
BeingRemoved(id) ==
    \E u \in Threads :
        /\ req[u].op = "delete_schedule"
        /\ req[u].pc \in {"get_job", "remove_job"}
        /\ req[u].schedule_id = id

\* C2: once delete_device has returned success for a device that had
\* schedules, no schedule of that device is left, and no job of it other
\* than one a delete_schedule in flight is about to remove.
C2_DeleteDeviceLeavesNothing ==
    \A t \in Threads :
        (/\ req[t].op = "delete_device"
         /\ req[t].pc = "done"
         /\ req[t].status = 200
         /\ req[t].ids # <<>>) =>
            /\ \A i \in 1..Len(jobs) :
                   jobs[i].device_id = req[t].device_id => BeingRemoved(jobs[i].id)
            /\ \A s \in DOMAIN schedules :
                   schedules[s].device_id # req[t].device_id

\* ------------------------------------------------------------------ C3
\* C3: every persisted schedule references a device present in the store.
C3_ScheduleHasDevice ==
    \A s \in DOMAIN schedules : schedules[s].device_id \in DOMAIN devices

\* ------------------------------------------------------------------ C4
\* A submitted run still has the fire instant k among its run times.
Pending(k) ==
    /\ k[1] \in DOMAIN runs
    /\ \E i \in 1..Len(runs[k[1]].run_times) : runs[k[1]].run_times[i] = k[2]

\* The job is armed and its next_run_time lies after the fire instant k.
Passed(k) ==
    \E i \in 1..Len(jobs) : jobs[i].id = k[1] /\ jobs[i].next_run_time > k[2]

\* C4: while the scheduler is running, every fire instant that came due for
\* an armed job is dispatched exactly once: never twice, and once the job
\* table has moved past the instant and no run of it is pending, once.
C4_ExactlyOncePerInstant ==
    schedState = "running" =>
        \A k \in due :
            /\ Count(dispatched, k) <= 1
            /\ (Passed(k) /\ ~Pending(k)) => Count(dispatched, k) = 1

\* ------------------------------------------------------------------ C5
\* C5: after shutdown_event has returned no run of _job is started and no
\* packet of a scheduled dispatch is sent.
C5_NoDispatchAfterStop ==
    [][app = "shutdown" =>
          /\ dispatched' = dispatched
          /\ \A id \in DOMAIN runs \cap DOMAIN runs' :
                 runs'[id].idx = runs[id].idx]_vars

\* ------------------------------------------------------------------ C6
\* C6: in the step that makes the scheduler running, every enabled schedule
\* of the store already has its job.
C6_ArmedBeforeStart ==
    [][(schedState = "stopped" /\ schedState' = "running") =>
          \A s \in DOMAIN schedules :
              (schedules[s].enabled = 1 /\ schedules[s].device_id \in DOMAIN devices)
                  => s \in JobIds(jobs')]_vars

\* ------------------------------------------------------------------ C7
\* C7: the job table never holds two entries with the same schedule id.
C7_OneEntryPerId ==
    \A i, j \in 1..Len(jobs) : jobs[i].id = jobs[j].id => i = j

\* C7 witness: a job armed by add_schedule next to a job armed by the
\* startup load that the driver has fired and stored again.
C7_Witness ==
    \E t \in Threads :
        /\ req[t].op = "add_schedule"
        /\ req[t].pc = "done"
        /\ req[t].status = 200
        /\ req[t].schedule_id \in JobIds(jobs)
        /\ \E i \in 1..Len(jobs) :
               /\ jobs[i].id # req[t].schedule_id
               /\ \E k \in due : k[1] = jobs[i].id /\ jobs[i].next_run_time > k[2]

\* ------------------------------------------------------------------ C8
\* C8: the job removal of delete_schedule and delete_device never fails.
C8_RemoveNeverFails ==
    \A t \in Threads :
        (req[t].op \in {"delete_schedule", "delete_device"} /\ req[t].pc = "done")
            => req[t].status # 500

\* ------------------------------------------------------------------ C9
\* C9: add_schedule with a malformed cron expression ends at once with an
\* error status, and the step that handles it changes neither the store
\* nor the job table.
C9_MalformedCronRejected ==
    [][\A t \in Threads :
          (req'[t].op = "add_schedule" /\ req'[t].cron \notin ValidCrons) =>
              /\ req'[t].pc = "done"
              /\ req'[t].status \in {400, 404}
              /\ req'[t].schedule_id = 0
              /\ (req'[t] # req[t] => UNCHANGED <<storeVars, jobs>>)]_vars

\* C9 witness: a malformed expression for an existing device was answered
\* with 400 while the store holds schedules.
C9_Witness ==
    \E t \in Threads :
        /\ req[t].op = "add_schedule"
        /\ req[t].cron \notin ValidCrons
        /\ req[t].device_id \in DOMAIN devices
        /\ req[t].pc = "done"
        /\ req[t].status = 400
        /\ schedules # <<>>

\* ------------------------------------------------------------------ C10
\* C10: a run of _job that finds its device missing sends nothing, ends
\* without an error and leaves the job table as it is.
C10_MissingDeviceIsNoOp ==
    [][\A id \in DOMAIN runs :
          (/\ runs[id].pc = "queued"
           /\ Count(dispatched', <<id, Head(runs[id].run_times)>>)
                  # Count(dispatched, <<id, Head(runs[id].run_times)>>)
           /\ runs[id].device_id \notin DOMAIN devices) =>
              /\ id \in DOMAIN runs'
              /\ runs'[id].outcome = "noop"
              /\ runs'[id].pc # "sending"
              /\ runs'[id].idx = runs[id].idx
              /\ jobs' = jobs]_vars

\* C10 witness: the no-op has happened and the job is still armed.
C10_Witness ==
    \E id \in DOMAIN runs :
        /\ runs[id].outcome = "noop"
        /\ runs[id].idx = 0
        /\ runs[id].device_id \notin DOMAIN devices
        /\ id \in JobIds(jobs)

\* ------------------------------------------------------------------ C11
\* C11: each iteration of the loop of _job attempts exactly the next target
\* of the selected list, whether or not the send fails; the run ends only
\* after the last target, never with an error, and the job table is not
\* touched.
C11_ScheduledFireAttemptsAll ==
    [][\A id \in DOMAIN runs :
          (runs[id].pc = "sending" /\ id \in DOMAIN runs' /\ runs'[id] # runs[id]) =>
              /\ runs'[id].idx = runs[id].idx + 1
              /\ runs'[id].selected = runs[id].selected
              /\ runs'[id].outcome # "error"
              /\ (runs'[id].pc # "sending" =>
                     /\ runs'[id].idx = Len(runs[id].selected)
                     /\ runs'[id].outcome = "sent")
              /\ jobs' = jobs]_vars

\* C11 witness: a fire over two targets ended after both sends failed and
\* its job is still armed.
C11_Witness ==
    \E id \in DOMAIN runs :
        /\ runs[id].pc = "done"
        /\ runs[id].outcome = "sent"
        /\ Len(runs[id].selected) = 2
        /\ runs[id].idx = 2
        /\ runs[id].failed = 2
        /\ id \in JobIds(jobs)

\* ------------------------------------------------------------------ C12
\* C12: the step that calls _job for an existing device selects the
\* schedule's override when there is one and otherwise the broadcast list
\* of the device row as the store holds it in that step; the selection does
\* not change while the run is sending.
C12_BroadcastsResolvedAtFire ==
    [][\A id \in DOMAIN runs :
          /\ (/\ runs[id].pc = "queued"
              /\ Count(dispatched', <<id, Head(runs[id].run_times)>>)
                     # Count(dispatched, <<id, Head(runs[id].run_times)>>)
              /\ runs[id].device_id \in DOMAIN devices) =>
                 /\ id \in DOMAIN runs'
                 /\ runs'[id].pc = "sending"
                 /\ (id \in DOMAIN schedules =>
                        runs[id].broadcasts = schedules[id].broadcasts)
                 /\ runs'[id].selected =
                        IF ~IsNone(runs[id].broadcasts) THEN runs[id].broadcasts[1]
                        ELSE devices[runs[id].device_id].broadcasts
          /\ (runs[id].pc = "sending" /\ id \in DOMAIN runs') =>
                 runs'[id].selected = runs[id].selected]_vars

\* C12 witness: a run sends to its override, which is not the list of its
\* device.
C12_Witness ==
    \E id \in DOMAIN runs :
        /\ runs[id].pc = "sending"
        /\ ~IsNone(runs[id].broadcasts)
        /\ runs[id].selected = runs[id].broadcasts[1]
        /\ runs[id].device_id \in DOMAIN devices
        /\ runs[id].selected # devices[runs[id].device_id].broadcasts

\* ------------------------------------------------------------------ C13
\* C13: a schedule stored with enabled = 0 has no job.
C13_DisabledNeverArmed ==
    \A s \in DOMAIN schedules : schedules[s].enabled = 0 => s \notin JobIds(jobs)

\* C13 witness: the startup load is over, it armed a job, and the store
\* holds a disabled schedule.
C13_Witness ==
    /\ app = "serving"
    /\ jobs # <<>>
    /\ \E s \in DOMAIN schedules :
           schedules[s].enabled = 0 /\ schedules[s].device_id \in DOMAIN devices

\* ------------------------------------------------------------------ C17
\* C17: when no request is in flight, every job belongs to a schedule that
\* is persisted and enabled.
C17_JobsMatchStore ==
    (\A t \in Threads : req[t].pc \in {"idle", "done"}) =>
        \A i \in 1..Len(jobs) :
            /\ jobs[i].id \in DOMAIN schedules
            /\ schedules[jobs[i].id].enabled = 1

\* ------------------------------------------------------------------ C18
\* C18: the store step of a delete_device that answers 404 leaves devices,
\* schedules and the job table as they were.
C18_DeleteMissingDeviceNoEffect ==
    [][\A t \in Threads :
          (/\ req[t].op = "delete_device"
           /\ req[t].pc = "db_delete"
           /\ req'[t].pc = "done"
           /\ req'[t].status = 404) =>
              /\ devices' = devices
              /\ schedules' = schedules
              /\ jobs' = jobs]_vars

\* ------------------------------------------------------------------ C19
\* C19: a wake that reports success has sent to at least one target, and
\* to every target of its resolved list.
C19_WakeSuccessHasSent ==
    \A t \in Threads :
        (req[t].op = "wake" /\ req[t].pc = "done" /\ req[t].status = 200) =>
            /\ req[t].targets # <<>>
            /\ req[t].sent = req[t].targets

\* ------------------------------------------------------------------ C14
IsCanonical(mac) ==
    /\ Len(mac) = 17
    /\ \A i \in 1..17 : IF i % 3 = 0 THEN mac[i] = ":" ELSE mac[i] \in HexDigit

RawByte(mac, i) == 16 * HexVal(mac[3 * i - 2]) + HexVal(mac[3 * i - 1])

\* C14: for a canonical MAC (six hex byte pairs separated by colons)
\* send_magic_packet builds a payload of exactly 102 bytes, six bytes 0xFF
\* followed by sixteen blocks that each equal the six raw MAC bytes; the
\* payload is a function of the MAC alone.
C14_PayloadLayout ==
    (IsCanonical(macIn) /\ wire.state # "not_called") =>
        /\ wire.state # "ValueError"
        /\ Len(wire.packet) = 102
        /\ \A i \in 1..6 : wire.packet[i] = 255
        /\ \A k \in 0..15 : \A i \in 1..6 :
             wire.packet[6 + 6 * k + i] = RawByte(macIn, i)

C14_Witness ==
    /\ IsCanonical(macIn)
    /\ wire.sent
    /\ Len(wire.packet) = 102

\* ------------------------------------------------------------------ C15
SixPairs(mac) ==
    LET clean == replace(replace(mac, ":"), "-")
    IN  /\ Len(clean) = 12
        /\ \A i \in 1..12 : clean[i] \in HexDigit

\* C15: send_magic_packet given a MAC that does not denote exactly six hex
\* byte pairs fails with an error and sends nothing.
C15_MalformedMacFails ==
    (~SixPairs(macIn) /\ wire.state # "not_called") =>
        /\ wire.state = "ValueError"
        /\ ~wire.sent

\* ------------------------------------------------------------------ C16
\* C16: whenever a scheduled job or an on-demand wake is inside
\* send_magic_packet, that context does not hold the store lock.
C16_NoLockDuringSend ==
    \A c \in LockContexts : ctx[c].pc = "in_send" => lock # c

C16_Witness ==
    /\ ctx["job1"].pc = "in_send"
    /\ ctx["wake"].pc = "in_send"
    /\ lock = "crud"

\* ------------------------------------------------------------------ C20
InWindow(ip, a) ==
    {i \in DOMAIN admitted[ip] :
        a <= admitted[ip][i] /\ admitted[ip][i] <= a + rate_limit_window_seconds}

\* C20: per client ip, the admitted requests with timestamps inside any
\* window of rate_limit_window_seconds never number more than
\* rate_limit_requests, the bucket never grows beyond the limit, and a
\* rejected (429) request leaves no timestamp in the bucket.
C20_RateLimitBound ==
    [][/\ \A ip \in ClientIps :
            /\ Len(requests_by_ip[ip]') <= rate_limit_requests
            /\ \A a \in 0..MaxClock :
                 Cardinality(InWindow(ip, a)') <= rate_limit_requests
       /\ \A ip \in ClientIps :
            (response' = [ip |-> ip, status |-> 429] /\ clock' = clock) =>
                /\ admitted' = admitted
                /\ Len(requests_by_ip[ip]') <= Len(requests_by_ip[ip])
                /\ \A i \in DOMAIN requests_by_ip[ip]' :
                     \E j \in DOMAIN requests_by_ip[ip] :
                        requests_by_ip[ip]'[i] = requests_by_ip[ip][j]]_vars

C20_Witness ==
    \E ip \in ClientIps :
        /\ response = [ip |-> ip, status |-> 429]
        /\ Len(requests_by_ip[ip]) = rate_limit_requests
        /\ Len(admitted[ip]) > rate_limit_requests

====
